---- MODULE Spec2Model ----
(***************************************************************************)
(* linurgy: the newline-run editor (src/src/editor.rs).                    *)
(*                                                                         *)
(* Text is a sequence of one-character strings.  The alphabet is ASCII, so *)
(* a character is one byte and String::len, as_bytes and truncate count    *)
(* the same units as chars().                                              *)
(***************************************************************************)
EXTENDS Integers, Sequences, FiniteSets, TLC

(* ------------------------------ bounds -------------------------------- *)

\* longest input text drawn character by character
MaxLen == 4

\* largest trigger (Editor.newlines) an Editor is constructed with
MaxTrigger == 2

\* calls made on one Editor in a behaviour
MaxCalls == 2

(* ------------------------- program constants -------------------------- *)

\* number of values of the u8 run counter (nl_count: u8)
U8 == 256

Lf == "Lf"
Crlf == "Crlf"

NewlineType == {Lf, Crlf}

\* NewlineType::as_str, and the (newline_len, newline_str) pair of edit_buffered
as_str(le) == IF le = Lf THEN <<"\n">> ELSE <<"\r", "\n">>

(* ------------------------------ inputs -------------------------------- *)

\* "\r" is ordinary content in Lf style, so Lf texts have two distinct content chars
Chars == {"a", "\n", "\r"}

Rep(s, k) == [i \in 1..(k * Len(s)) |-> s[((i - 1) % Len(s)) + 1]]

Texts == UNION {[1..n -> Chars] : n \in 0..MaxLen}

\* runs long enough to carry the u8 counter past 255
LongTexts == {Rep(<<"\n">>, U8), Rep(<<"\n">>, U8) \o <<"a">>}

Inputs == Texts \cup LongTexts

\* "" (remove the run) and "-\n" (the insert-dash replacement of the tests)
Replacements == {<<>>, <<"-", "\n">>}

Triggers == 0..MaxTrigger

(* ------------------------------- state -------------------------------- *)

VARIABLES
    replace,          \* Editor.replace
    newlines,         \* Editor.newlines, the trigger
    line_ending,      \* Editor.line_ending
    overflow_checks,  \* build profile: TRUE panics on integer overflow, FALSE wraps
    pc,               \* where the current call is
    op,               \* the method of the current or last call
    input,            \* the text (or the source's whole content) of the call
    pos,              \* characters consumed from input
    nl_count,         \* the call's run counter (local newlines / nl_count)
    output,           \* the call's output String, or the sink of edit_buffered
    calls,            \* calls started on this Editor
    threads,          \* the locals of the edit call of each thread sharing the Editor
    factory,          \* the Factory struct a factory function fills in
    editor,           \* the legacy Editor of a LinurgyBuilder (src/src/lib.rs)
    buffer,           \* the local buffer of LinurgyBuilder::process
    sink_len,         \* bytes the sink held when edit_buffered was called
    io_log,           \* the read_line / write_all calls made on source and sink
    builder,          \* the EditorBuilder (src/src/builder/basic.rs)
    piped             \* the Factory and the input of the Editor whose output is edited again

self == <<replace, newlines, line_ending>>

\* the state that calls of edit and edit_buffered on one thread leave alone
ext == <<threads, factory, editor, buffer, sink_len, io_log, builder, piped>>

vars == <<replace, newlines, line_ending, overflow_checks, pc, op, input, pos,
          nl_count, output, calls, threads, factory, editor, buffer, sink_len,
          io_log, builder, piped>>

\* the locals of a running call
St(out, n, p) == [output |-> out, nl_count |-> n, panicked |-> p]

(* --------------------------- Editor::edit ----------------------------- *)

\* handle_newline that counts the newlines of the replacement it pushes
handle_newline_counts_replace(out, n) ==
    IF n + 1 >= U8 /\ overflow_checks
    THEN St(out, n, TRUE)
    ELSE LET inc == (n + 1) % U8
         IN  IF inc = newlines
             THEN St(out \o replace,
                     Cardinality({i \in 1..Len(replace) : replace[i] = "\n"}), FALSE)
             ELSE St(out, inc, FALSE)

\* handle_newline that fires without resetting the counter
handle_newline_keeps_count(out, n) ==
    IF n + 1 >= U8 /\ overflow_checks
    THEN St(out, n, TRUE)
    ELSE LET inc == (n + 1) % U8
         IN  IF inc = newlines
             THEN St(out \o replace, inc, FALSE)
             ELSE St(out, inc, FALSE)

\* nl_count += 1 on a u8: panics under overflow checks, wraps otherwise
handle_newline(out, n) ==
    IF n + 1 >= U8 /\ overflow_checks
    THEN St(out, n, TRUE)
    ELSE LET inc == (n + 1) % U8
         IN  IF inc = newlines
             THEN St(out \o replace, 0, FALSE)
             ELSE St(out, inc, FALSE)

\* handle_char_lf that returns the count it was given
handle_char_lf_keeps_count(out, c, n) == St(out \o Rep(<<"\n">>, n) \o <<c>>, n, FALSE)

\* handle_char_lf that forgets the pending newlines
handle_char_lf_no_flush(out, c, n) == St(out \o <<c>>, 0, FALSE)

handle_char_lf(out, c, n) == St(out \o Rep(<<"\n">>, n) \o <<c>>, 0, FALSE)

\* handle_char_crlf that pushes the character before the pending newlines
handle_char_crlf_char_first(out, c, n) ==
    St(out \o <<c>> \o Rep(<<"\r", "\n">>, n), 0, FALSE)

handle_char_crlf(out, c, n) == St(out \o Rep(<<"\r", "\n">>, n) \o <<c>>, 0, FALSE)

\* the match of edit_lf's loop body
lf_char(out, c, n) ==
    IF c = "\n" THEN handle_newline(out, n) ELSE handle_char_lf(out, c, n)

\* the match of edit_crlf counting on the "\r" half of a pair
crlf_char_counts_cr(out, c, n) ==
    IF c = "\r" THEN handle_newline(out, n)
    ELSE IF c = "\n" THEN St(out, n, FALSE)
    ELSE handle_char_crlf(out, c, n)

\* the match of edit_crlf's loop body
crlf_char(out, c, n) ==
    IF c = "\r" THEN St(out, n, FALSE)
    ELSE IF c = "\n" THEN handle_newline(out, n)
    ELSE handle_char_crlf(out, c, n)

\* the iterations of edit_lf's loop on x[lo], .., x[hi] in this order, from
\* the locals st, stopping at a panic (the second half is run on what the
\* first half leaves)
RECURSIVE lf_range(_, _, _, _)
lf_range(x, lo, hi, st) ==
    IF lo > hi \/ st.panicked THEN st
    ELSE IF lo = hi THEN lf_char(st.output, x[lo], st.nl_count)
    ELSE LET mid == (lo + hi) \div 2
         IN  lf_range(x, mid + 1, hi, lf_range(x, lo, mid, st))

\* `for c in input.chars()` of edit_lf from the i-th character on
lf_loop(x, i, st) == lf_range(x, i, Len(x), st)

\* the same for edit_crlf
RECURSIVE crlf_range(_, _, _, _)
crlf_range(x, lo, hi, st) ==
    IF lo > hi \/ st.panicked THEN st
    ELSE IF lo = hi THEN crlf_char(st.output, x[lo], st.nl_count)
    ELSE LET mid == (lo + hi) \div 2
         IN  crlf_range(x, mid + 1, hi, crlf_range(x, lo, mid, st))

crlf_loop(x, i, st) == crlf_range(x, i, Len(x), st)

\* edit_lf without its trailing loop
lf_trailing_none(st) == st

\* the trailing loop of edit_lf / edit_crlf and the value returned
lf_trailing(st) == St(st.output \o Rep(<<"\n">>, st.nl_count), st.nl_count, st.panicked)

crlf_trailing(st) ==
    St(st.output \o Rep(<<"\r", "\n">>, st.nl_count), st.nl_count, st.panicked)

edit_lf(x) ==
    LET st == lf_loop(x, 1, St(<<>>, 0, FALSE))
    IN  IF st.panicked THEN st ELSE lf_trailing(st)

edit_crlf(x) ==
    LET st == crlf_loop(x, 1, St(<<>>, 0, FALSE))
    IN  IF st.panicked THEN st ELSE crlf_trailing(st)

\* Editor::edit as a function of the text, on an Editor no call has touched
edit(x) == IF line_ending = Lf THEN edit_lf(x) ELSE edit_crlf(x)

(* ------------------------------ actions ------------------------------- *)

\* nothing but one Editor exists
ExtInit ==
    /\ threads = <<>>
    /\ factory = <<>>
    /\ editor = <<>>
    /\ buffer = <<>>
    /\ sink_len = 0
    /\ io_log = <<>>
    /\ piped = <<>>
    /\ builder = <<>>

Init ==
    /\ replace \in Replacements
    /\ newlines \in Triggers
    /\ line_ending \in NewlineType
    /\ overflow_checks \in BOOLEAN
    /\ pc = "idle"
    /\ op = "none"
    /\ input = <<>>
    /\ pos = 0
    /\ nl_count = 0
    /\ output = <<>>
    /\ calls = 0
    /\ ExtInit

Callable == pc = "idle" /\ calls < MaxCalls

\* the caller is done with the String (or the sink) of the last call and
\* drops it; the Editor stays in scope for the next call
Drop ==
    /\ pc = "returned"
    /\ pc' = "idle"
    /\ input' = <<>>
    /\ pos' = 0
    /\ output' = <<>>
    /\ UNCHANGED <<replace, newlines, line_ending, overflow_checks, op, nl_count, calls>>
    /\ UNCHANGED ext

\* edit whose run counter outlives the call
CallEditStale(x) ==
    /\ Callable
    /\ pc' = IF line_ending = Lf THEN "edit_lf" ELSE "edit_crlf"
    /\ op' = "edit"
    /\ input' = x
    /\ pos' = 0
    /\ output' = <<>>
    /\ calls' = calls + 1
    /\ UNCHANGED <<replace, newlines, line_ending, overflow_checks, nl_count>>
    /\ UNCHANGED ext

\* edit(&self, input): dispatch on line_ending, fresh output and counter
CallEdit(x) ==
    /\ Callable
    /\ pc' = IF line_ending = Lf THEN "edit_lf" ELSE "edit_crlf"
    /\ op' = "edit"
    /\ input' = x
    /\ pos' = 0
    /\ nl_count' = 0
    /\ output' = <<>>
    /\ calls' = calls + 1
    /\ UNCHANGED <<replace, newlines, line_ending, overflow_checks>>
    /\ UNCHANGED ext

\* the locals after one iteration that produced st
Iterate(st) ==
    /\ pos' = pos + 1
    /\ nl_count' = st.nl_count
    /\ output' = st.output
    /\ pc' = IF st.panicked THEN "panicked" ELSE pc
    /\ UNCHANGED <<replace, newlines, line_ending, overflow_checks, op, input, calls>>
    /\ UNCHANGED ext

\* one iteration of `for c in input.chars()` in edit_lf
EditLfChar ==
    /\ pc = "edit_lf"
    /\ pos < Len(input)
    /\ Iterate(lf_char(output, input[pos + 1], nl_count))

\* one iteration of `for c in input.chars()` in edit_crlf
EditCrlfChar ==
    /\ pc = "edit_crlf"
    /\ pos < Len(input)
    /\ Iterate(crlf_char(output, input[pos + 1], nl_count))

\* the chars are exhausted: trailing newlines, then the String is returned
EditLfReturn ==
    /\ pc = "edit_lf"
    /\ pos = Len(input)
    /\ output' = lf_trailing(St(output, nl_count, FALSE)).output
    /\ pc' = "returned"
    /\ UNCHANGED <<replace, newlines, line_ending, overflow_checks, op, input, pos,
                   nl_count, calls>>
    /\ UNCHANGED ext

EditCrlfReturn ==
    /\ pc = "edit_crlf"
    /\ pos = Len(input)
    /\ output' = crlf_trailing(St(output, nl_count, FALSE)).output
    /\ pc' = "returned"
    /\ UNCHANGED <<replace, newlines, line_ending, overflow_checks, op, input, pos,
                   nl_count, calls>>
    /\ UNCHANGED ext

(* ----------------------- Editor::edit_buffered ------------------------ *)

\* BufRead::read_line on a source holding x with p bytes consumed: the bytes
\* through the first "\n", or to the end of the source
RECURSIVE line_end(_, _)
line_end(x, i) ==
    IF i >= Len(x) THEN Len(x)
    ELSE IF x[i + 1] = "\n" THEN i + 1
    ELSE line_end(x, i + 1)

read_line(x, p) == SubSeq(x, p + 1, line_end(x, p))

\* the trigger check that writes the replacement and keeps the count
trigger_check_keeps_count(st) ==
    IF st.nl_count = newlines
    THEN St(st.output \o replace, st.nl_count, FALSE)
    ELSE st

\* `if newlines == self.newlines` at the end of every iteration
trigger_check(st) ==
    IF st.nl_count = newlines
    THEN St(st.output \o replace, 0, FALSE)
    ELSE st

\* the match on read_line's result for a line of len > 0 bytes
match_line(out, buf, n) ==
    LET len == Len(buf)
        newline_str == as_str(line_ending)
        newline_len == Len(newline_str)
        flushed == out \o Rep(newline_str, n)
    IN  IF len = newline_len
        THEN \* newlines += 1 on a u8
             IF n + 1 >= U8 /\ overflow_checks
             THEN St(out, n, TRUE)
             ELSE St(out, (n + 1) % U8, FALSE)
        ELSE IF buf[len] = "\n"
        THEN \* newlines is 0 after the flush and becomes 1; len - newline_len
             \* is a usize: below 0 it panics under overflow checks (the flush
             \* already written), else wraps and truncate past the end is a no-op
             IF len < newline_len
             THEN IF overflow_checks
                  THEN St(flushed, 1, TRUE)
                  ELSE St(flushed \o buf, 1, FALSE)
             ELSE St(flushed \o SubSeq(buf, 1, len - newline_len), 1, FALSE)
        ELSE St(flushed \o buf, 0, FALSE)

\* one iteration of the loop of edit_buffered on a line of len > 0
buffered_line(out, buf, n) ==
    LET st == match_line(out, buf, n)
    IN  IF st.panicked THEN st ELSE trigger_check(st)

\* edit_buffered(&self, input, output) on a fresh sink
CallEditBuffered(x) ==
    /\ Callable
    /\ pc' = "edit_buffered"
    /\ op' = "edit_buffered"
    /\ input' = x
    /\ pos' = 0
    /\ nl_count' = 0
    /\ output' = <<>>
    /\ calls' = calls + 1
    /\ UNCHANGED <<replace, newlines, line_ending, overflow_checks>>
    /\ UNCHANGED ext

\* read_line returned len > 0
BufferedLine ==
    /\ pc = "edit_buffered"
    /\ pos < Len(input)
    /\ LET buf == read_line(input, pos)
           st == buffered_line(output, buf, nl_count)
       IN  /\ pos' = pos + Len(buf)
           /\ nl_count' = st.nl_count
           /\ output' = st.output
           /\ pc' = IF st.panicked THEN "panicked" ELSE pc
    /\ UNCHANGED <<replace, newlines, line_ending, overflow_checks, op, input, calls>>
    /\ UNCHANGED ext

\* read_line returned 0: break, trailing newlines, Ok(())
BufferedEof ==
    /\ pc = "edit_buffered"
    /\ pos = Len(input)
    /\ output' = output \o Rep(as_str(line_ending), nl_count)
    /\ nl_count' = 0
    /\ pc' = "returned"
    /\ UNCHANGED <<replace, newlines, line_ending, overflow_checks, op, input, pos,
                   calls>>
    /\ UNCHANGED ext

(* --------------------------- specifications --------------------------- *)

\* calls of edit on one Editor
Next ==
    \/ \E x \in Inputs : CallEdit(x)
    \/ EditLfChar
    \/ EditCrlfChar
    \/ EditLfReturn
    \/ EditCrlfReturn
    \/ Drop

Spec == Init /\ [][Next]_vars

\* calls of edit_buffered on one Editor
NextBuffered ==
    \/ \E x \in Inputs : CallEditBuffered(x)
    \/ BufferedLine
    \/ BufferedEof
    \/ Drop

SpecBuffered == Init /\ [][NextBuffered]_vars

(* -------------------- threads sharing one Editor ---------------------- *)

\* threads spawned on one Arc<Editor>
MaxThreads == 2

\* length of the text the threads edit
MaxThreadLen == 2

Threads == 1..MaxThreads

ThreadTexts == UNION {[1..n -> Chars] : n \in 0..MaxThreadLen}

\* the locals of the edit call of one thread
Local(p, i, n, out) == [pc |-> p, pos |-> i, nl_count |-> n, output |-> out]

\* Arc::new(editor), the threads spawned and none of them started; every
\* thread is given the same text
InitThreads ==
    /\ replace \in Replacements
    /\ newlines \in Triggers
    /\ line_ending \in NewlineType
    /\ overflow_checks \in BOOLEAN
    /\ input \in ThreadTexts
    /\ threads = [t \in Threads |-> Local("spawned", 0, 0, <<>>)]
    /\ pc = "idle"
    /\ op = "none"
    /\ pos = 0
    /\ nl_count = 0
    /\ output = <<>>
    /\ calls = 0
    /\ factory = <<>>
    /\ editor = <<>>
    /\ buffer = <<>>
    /\ sink_len = 0
    /\ io_log = <<>>
    /\ piped = <<>>
    /\ builder = <<>>

\* what a thread's step leaves alone: the Editor behind the Arc and all that
\* is not a thread's
ThreadFrame ==
    UNCHANGED <<replace, newlines, line_ending, overflow_checks, pc, op, input,
                pos, nl_count, output, calls, factory, editor, buffer, sink_len,
                io_log, builder, piped>>

\* editor.edit(input) in thread t: fresh output and counter on t's stack
ThreadCall(t) ==
    /\ threads[t].pc = "spawned"
    /\ threads' = [threads EXCEPT ![t] =
           Local(IF line_ending = Lf THEN "edit_lf" ELSE "edit_crlf", 0, 0, <<>>)]
    /\ ThreadFrame

\* an iteration that keeps the run counter in one place for all threads
ThreadCharShared(t) ==
    /\ threads[t].pc \in {"edit_lf", "edit_crlf"}
    /\ threads[t].pos < Len(input)
    /\ LET c == input[threads[t].pos + 1]
           st == IF threads[t].pc = "edit_lf"
                 THEN lf_char(threads[t].output, c, nl_count)
                 ELSE crlf_char(threads[t].output, c, nl_count)
       IN  /\ threads' = [threads EXCEPT ![t] =
                  Local(threads[t].pc, threads[t].pos + 1, st.nl_count, st.output)]
           /\ nl_count' = st.nl_count
    /\ UNCHANGED <<replace, newlines, line_ending, overflow_checks, pc, op, input,
                   pos, output, calls, factory, editor, buffer, sink_len, io_log, builder, piped>>

\* one iteration of `for c in input.chars()` in thread t
ThreadChar(t) ==
    /\ threads[t].pc \in {"edit_lf", "edit_crlf"}
    /\ threads[t].pos < Len(input)
    /\ LET c == input[threads[t].pos + 1]
           st == IF threads[t].pc = "edit_lf"
                 THEN lf_char(threads[t].output, c, threads[t].nl_count)
                 ELSE crlf_char(threads[t].output, c, threads[t].nl_count)
       IN  threads' = [threads EXCEPT ![t] =
               Local(IF st.panicked THEN "panicked" ELSE threads[t].pc,
                     threads[t].pos + 1, st.nl_count, st.output)]
    /\ ThreadFrame

\* the chars are exhausted in thread t: trailing newlines, the String returned
ThreadReturn(t) ==
    /\ threads[t].pc \in {"edit_lf", "edit_crlf"}
    /\ threads[t].pos = Len(input)
    /\ LET st == St(threads[t].output, threads[t].nl_count, FALSE)
           out == IF threads[t].pc = "edit_lf"
                  THEN lf_trailing(st).output
                  ELSE crlf_trailing(st).output
       IN  threads' = [threads EXCEPT ![t] =
               Local("returned", threads[t].pos, threads[t].nl_count, out)]
    /\ ThreadFrame

\* the threads run in any interleaving
NextThreads ==
    \E t \in Threads :
        \/ ThreadCall(t)
        \/ ThreadChar(t)
        \/ ThreadReturn(t)

SpecThreads == InitThreads /\ [][NextThreads]_vars

(* ------------------------------ factory ------------------------------- *)

EditTypeAppend == "Append"
EditTypeInsert == "Insert"
EditTypeReplace == "Replace"

EditType == {EditTypeAppend, EditTypeInsert, EditTypeReplace}

\* the texts handed to the factory functions
FactoryTexts == {<<>>, <<"-">>, <<"\n">>}

\* struct Factory
Factory(text, trigger, edit_type, newline) ==
    [text |-> text, trigger |-> trigger, edit_type |-> edit_type, newline |-> newline]

\* append_string that pushes the text first
append_string_text_first(f) == f.text \o Rep(as_str(f.newline), f.trigger)

append_string(f) == Rep(as_str(f.newline), f.trigger) \o f.text

\* insert_string that pushes the newlines first
insert_string_newlines_first(f) == Rep(as_str(f.newline), f.trigger) \o f.text

insert_string(f) == f.text \o Rep(as_str(f.newline), f.trigger)

\* the arguments create_editor hands to Editor::new
create_editor(f) ==
    LET replace_string ==
            IF f.edit_type = EditTypeAppend THEN append_string(f)
            ELSE IF f.edit_type = EditTypeInsert THEN insert_string(f)
            ELSE f.text
    IN  [replace |-> replace_string, newlines |-> f.trigger, line_ending |-> f.newline]

\* no factory function has been called: there is no Editor yet, and the
\* variables of one hold what Editor::default() would
InitFactory ==
    /\ replace = <<>>
    /\ newlines = 0
    /\ line_ending = Lf
    /\ overflow_checks \in BOOLEAN
    /\ pc = "factory"
    /\ op = "none"
    /\ input = <<>>
    /\ pos = 0
    /\ nl_count = 0
    /\ output = <<>>
    /\ calls = 0
    /\ ExtInit

\* Factory::build: fill in the struct, create the Editor
build(text, trigger, edit_type, newline) ==
    /\ pc = "factory"
    /\ LET f == Factory(text, trigger, edit_type, newline)
           e == create_editor(f)
       IN  /\ factory' = f
           /\ replace' = e.replace
           /\ newlines' = e.newlines
           /\ line_ending' = e.line_ending
    /\ pc' = "idle"
    /\ UNCHANGED <<overflow_checks, op, input, pos, nl_count, output, calls,
                   threads, editor, buffer, sink_len, io_log, builder, piped>>

appender(text, n) == build(text, n, EditTypeAppend, Lf)

inserter(text, n) == build(text, n, EditTypeInsert, Lf)

replacer(text, n) == build(text, n, EditTypeReplace, Lf)

appender_crlf(text, n) == build(text, n, EditTypeAppend, Crlf)

inserter_crlf(text, n) == build(text, n, EditTypeInsert, Crlf)

replacer_crlf(text, n) == build(text, n, EditTypeReplace, Crlf)

\* a factory function, then calls of edit on the Editor it returned
NextFactory ==
    \/ \E text \in FactoryTexts, n \in Triggers : appender(text, n)
    \/ \E text \in FactoryTexts, n \in Triggers : inserter(text, n)
    \/ \E text \in FactoryTexts, n \in Triggers : replacer(text, n)
    \/ \E text \in FactoryTexts, n \in Triggers : appender_crlf(text, n)
    \/ \E text \in FactoryTexts, n \in Triggers : inserter_crlf(text, n)
    \/ \E text \in FactoryTexts, n \in Triggers : replacer_crlf(text, n)
    \/ \E x \in Texts : CallEdit(x)
    \/ EditLfChar
    \/ EditCrlfChar
    \/ EditLfReturn
    \/ EditCrlfReturn

SpecFactory == InitFactory /\ [][NextFactory]_vars

(* ------------- edit_buffered on a source and sink that fail ----------- *)

\* the concatenation of the chunks ws
RECURSIVE Flat(_)
Flat(ws) == IF ws = <<>> THEN <<>> ELSE Head(ws) \o Flat(Tail(ws))

\* the chunks one iteration hands to write_all, in order, on a line of
\* len > 0 when no write fails: the pending newlines and the content (unless
\* `len - newline_len` panics first), then the replacement if the trigger is
\* met
line_writes(buf, n) ==
    LET len == Len(buf)
        newline_str == as_str(line_ending)
        newline_len == Len(newline_str)
        pending == [i \in 1..n |-> newline_str]
        st == match_line(<<>>, buf, n)
        content ==
            IF len = newline_len THEN <<>>
            ELSE IF st.panicked THEN pending
            ELSE IF buf[len] = "\n" /\ len >= newline_len
            THEN pending \o <<SubSeq(buf, 1, len - newline_len)>>
            ELSE pending \o <<buf>>
    IN  IF ~st.panicked /\ st.nl_count = newlines
        THEN content \o <<replace>>
        ELSE content

\* the chunks of the trailing loop
trailing_writes(n) == [i \in 1..n |-> as_str(line_ending)]

\* k calls of write_all that returned Ok
Written(k) == [i \in 1..k |-> "write_all"]

\* read_line returned len > 0 and every write_all of the iteration Ok
IoLine ==
    /\ pc = "edit_buffered"
    /\ pos < Len(input)
    /\ LET buf == read_line(input, pos)
           st == buffered_line(output, buf, nl_count)
           ws == line_writes(buf, nl_count)
       IN  /\ pos' = pos + Len(buf)
           /\ nl_count' = st.nl_count
           /\ output' = output \o Flat(ws)
           /\ pc' = IF st.panicked THEN "panicked" ELSE pc
           /\ io_log' = io_log \o <<"read_line">> \o Written(Len(ws))
    /\ UNCHANGED <<replace, newlines, line_ending, overflow_checks, op, input, calls,
                   threads, factory, editor, buffer, sink_len, builder, piped>>

\* read_line returned 0 and every write_all of the trailing loop Ok
IoEof ==
    /\ pc = "edit_buffered"
    /\ pos = Len(input)
    /\ output' = output \o Flat(trailing_writes(nl_count))
    /\ nl_count' = 0
    /\ pc' = "returned"
    /\ io_log' = io_log \o <<"read_line">> \o Written(nl_count)
    /\ UNCHANGED <<replace, newlines, line_ending, overflow_checks, op, input, pos,
                   calls, threads, factory, editor, buffer, sink_len, builder, piped>>

\* read_line returned Err: `?` returns it
IoReadErr ==
    /\ pc = "edit_buffered"
    /\ pc' = "failed"
    /\ io_log' = io_log \o <<"read_line Err">>
    /\ UNCHANGED <<replace, newlines, line_ending, overflow_checks, op, input, pos,
                   nl_count, output, calls, threads, factory, editor, buffer,
                   sink_len, builder, piped>>

\* the k-th write_all of ws returned Err with the first p bytes of its
\* chunk in the sink; write_all of an empty chunk makes no write and cannot
\* fail
WriteErr(ws, k, p, next_pc) ==
    /\ ws[k] # <<>>
    /\ output' = output \o Flat(SubSeq(ws, 1, k - 1)) \o SubSeq(ws[k], 1, p)
    /\ io_log' = io_log \o <<"read_line">> \o Written(k - 1) \o <<"write_all Err">>
    /\ pc' = next_pc

\* a write_all whose Err is dropped: the loop goes on
IoLineWriteErrIgnored ==
    /\ pc = "edit_buffered"
    /\ pos < Len(input)
    /\ LET buf == read_line(input, pos)
           ws == line_writes(buf, nl_count)
       IN  /\ \E k \in 1..Len(ws) : \E p \in 0..(Len(ws[k]) - 1) :
                  WriteErr(ws, k, p, "edit_buffered")
           /\ pos' = pos + Len(buf)
    /\ UNCHANGED <<replace, newlines, line_ending, overflow_checks, op, input,
                   nl_count, calls, threads, factory, editor, buffer, sink_len, builder, piped>>

\* read_line returned len > 0 and a write_all of the iteration returned Err:
\* `?` returns it
IoLineWriteErr ==
    /\ pc = "edit_buffered"
    /\ pos < Len(input)
    /\ LET buf == read_line(input, pos)
           ws == line_writes(buf, nl_count)
       IN  /\ \E k \in 1..Len(ws) : \E p \in 0..(Len(ws[k]) - 1) :
                  WriteErr(ws, k, p, "failed")
           /\ pos' = pos + Len(buf)
    /\ UNCHANGED <<replace, newlines, line_ending, overflow_checks, op, input,
                   nl_count, calls, threads, factory, editor, buffer, sink_len, builder, piped>>

\* read_line returned 0 and a write_all of the trailing loop returned Err
IoEofWriteErr ==
    /\ pc = "edit_buffered"
    /\ pos = Len(input)
    /\ LET ws == trailing_writes(nl_count)
       IN  \E k \in 1..Len(ws) : \E p \in 0..(Len(ws[k]) - 1) :
               WriteErr(ws, k, p, "failed")
    /\ UNCHANGED <<replace, newlines, line_ending, overflow_checks, op, input, pos,
                   nl_count, calls, threads, factory, editor, buffer, sink_len, builder, piped>>

\* one call of edit_buffered whose source and sink may fail at any call
NextIo ==
    \/ \E x \in Texts : CallEditBuffered(x)
    \/ IoLine
    \/ IoEof
    \/ IoReadErr
    \/ IoLineWriteErr
    \/ IoEofWriteErr

SpecIo == Init /\ [][NextIo]_vars

(* ------------- edit_buffered again on the sink of a call -------------- *)

\* length of the texts of two calls that share a sink
MaxSinkLen == 2

SinkTexts == UNION {[1..n -> Chars] : n \in 0..MaxSinkLen}

\* the caller keeps the sink of the call that returned for one more call
KeepSink ==
    /\ pc = "returned"
    /\ op = "edit_buffered"
    /\ calls < MaxCalls
    /\ pc' = "kept"
    /\ input' = <<>>
    /\ pos' = 0
    /\ UNCHANGED <<replace, newlines, line_ending, overflow_checks, op, nl_count,
                   output, calls>>
    /\ UNCHANGED ext

\* edit_buffered that starts by emptying the sink
CallEditBufferedAgainCleared(x) ==
    /\ pc = "kept"
    /\ pc' = "edit_buffered"
    /\ op' = "edit_buffered again"
    /\ input' = x
    /\ pos' = 0
    /\ nl_count' = 0
    /\ output' = <<>>
    /\ sink_len' = Len(output)
    /\ calls' = calls + 1
    /\ UNCHANGED <<replace, newlines, line_ending, overflow_checks, threads, factory,
                   editor, buffer, io_log, builder, piped>>

\* edit_buffered(&self, input, output) with the sink of the last call: the
\* locals are new, the sink is as the last call left it
CallEditBufferedAgain(x) ==
    /\ pc = "kept"
    /\ pc' = "edit_buffered"
    /\ op' = "edit_buffered again"
    /\ input' = x
    /\ pos' = 0
    /\ nl_count' = 0
    /\ sink_len' = Len(output)
    /\ calls' = calls + 1
    /\ UNCHANGED <<replace, newlines, line_ending, overflow_checks, output, threads,
                   factory, editor, buffer, io_log, builder, piped>>

\* a call of edit_buffered on a new sink, then one more on the same sink
NextSink ==
    \/ \E x \in SinkTexts : CallEditBuffered(x)
    \/ KeepSink
    \/ \E x \in SinkTexts : CallEditBufferedAgain(x)
    \/ BufferedLine
    \/ BufferedEof
    \/ Drop

SpecSink == Init /\ [][NextSink]_vars

(* ------------------- calls that are left to run ----------------------- *)

\* calls of edit and of edit_buffered on one Editor
NextLive ==
    \/ \E x \in Texts : CallEdit(x)
    \/ \E x \in Texts : CallEditBuffered(x)
    \/ EditLfChar
    \/ EditCrlfChar
    \/ EditLfReturn
    \/ EditCrlfReturn
    \/ BufferedLine
    \/ BufferedEof
    \/ Drop

\* a call that has started keeps running: its loop body and its return are
\* taken whenever they can be (when and whether the caller calls is open)
Fairness ==
    /\ WF_vars(EditLfChar)
    /\ WF_vars(EditCrlfChar)
    /\ WF_vars(EditLfReturn)
    /\ WF_vars(EditCrlfReturn)
    /\ WF_vars(BufferedLine)
    /\ WF_vars(BufferedEof)

SpecLive == Init /\ [][NextLive]_vars /\ Fairness

(* ------------------ the legacy LinurgyBuilder (lib.rs) ---------------- *)

\* length of the text in an Input::Buffer
MaxLegacyLen == 3

LegacyTexts == UNION {[1..n -> Chars] : n \in 0..MaxLegacyLen}

\* struct Editor of lib.rs
LegacyEditor(trigger, text, type, count, buf) ==
    [newline_count_trigger |-> trigger, new_text |-> text, edit_type |-> type,
     current_count |-> count, buffer |-> buf]

\* the result of a method of the legacy Editor: the Editor after it, what it
\* returned, whether it panicked
Ret(ed, value, p) == [editor |-> ed, value |-> value, panicked |-> p]

None == "None"

Some(s) == <<"Some", s>>

\* Editor::add_line; current_count += 1 is on a u8
add_line(ed, line) ==
    LET appended == [ed EXCEPT !.buffer = ed.buffer \o line]
    IN  IF line = <<"\n">>
        THEN IF appended.current_count + 1 >= U8 /\ overflow_checks
             THEN Ret(appended, None, TRUE)
             ELSE LET counted == [appended EXCEPT
                          !.current_count = (appended.current_count + 1) % U8]
                  IN  IF counted.current_count = counted.newline_count_trigger
                      THEN LET reset == [counted EXCEPT !.current_count = 0]
                           IN  IF reset.edit_type = EditTypeAppend
                               THEN Ret([reset EXCEPT !.buffer = reset.buffer \o reset.new_text],
                                        None, FALSE)
                               ELSE IF reset.edit_type = EditTypeInsert
                               THEN Ret([reset EXCEPT !.buffer = reset.new_text \o reset.buffer],
                                        None, FALSE)
                               ELSE Ret([reset EXCEPT !.buffer = reset.new_text], None, FALSE)
                      ELSE Ret(counted, None, FALSE)
        ELSE Ret([appended EXCEPT !.current_count = 0], None, FALSE)

\* try_output that drains the buffer whatever the count
try_output_any_count(ed) == Ret([ed EXCEPT !.buffer = <<>>], Some(ed.buffer), FALSE)

\* Editor::try_output
try_output(ed) ==
    IF ed.current_count = 0
    THEN Ret([ed EXCEPT !.buffer = <<>>], Some(ed.buffer), FALSE)
    ELSE Ret(ed, None, FALSE)

\* Editor::get_remaining_output
get_remaining_output(ed) ==
    IF ed.buffer # <<>>
    THEN Ret([ed EXCEPT !.buffer = <<>>], Some(ed.buffer), FALSE)
    ELSE Ret(ed, None, FALSE)

\* an item of BufRead::lines(): the line read without its "\n", and without
\* the "\r" before that "\n" if there is one
lines_item(raw) ==
    IF raw[Len(raw)] # "\n" THEN raw
    ELSE IF Len(raw) >= 2 /\ raw[Len(raw) - 1] = "\r"
    THEN SubSeq(raw, 1, Len(raw) - 2)
    ELSE SubSeq(raw, 1, Len(raw) - 1)

\* `buffer += &edited` under `if let Some(edited)`
push_edited(buf, value) == IF value = None THEN buf ELSE buf \o value[2]

\* LinurgyBuilder::process as a function of the reader's text and the
\* Editor it starts with: what is pushed to the Output::Buffer
RECURSIVE process(_, _, _, _)
process(x, p, ed, buf) ==
    IF p >= Len(x)
    THEN push_edited(buf, get_remaining_output(ed).value)
    ELSE LET raw == read_line(x, p)
             added == add_line(ed, lines_item(raw) \o <<"\n">>)
             tried == try_output(added.editor)
         IN  IF added.panicked THEN buf
             ELSE process(x, p + Len(raw), tried.editor,
                          push_edited(buf, tried.value))

\* a LinurgyBuilder whose setters have been called, with an empty output
\* buffer; its Editor has seen no line
InitLegacy ==
    /\ editor \in {LegacyEditor(t, text, type, 0, <<>>) :
                       t \in Triggers, text \in Replacements, type \in EditType}
    /\ overflow_checks \in BOOLEAN
    /\ buffer = <<>>
    /\ pc = "idle"
    /\ op = "none"
    /\ input = <<>>
    /\ pos = 0
    /\ output = <<>>
    /\ calls = 0
    /\ replace = <<>>
    /\ newlines = 0
    /\ line_ending = Lf
    /\ nl_count = 0
    /\ threads = <<>>
    /\ factory = <<>>
    /\ sink_len = 0
    /\ io_log = <<>>
    /\ piped = <<>>
    /\ builder = <<>>

\* what the legacy builder has no part in
LegacyFrame ==
    UNCHANGED <<replace, newlines, line_ending, overflow_checks, nl_count, threads,
                factory, sink_len, io_log, builder, piped>>

\* set_input(Input::Buffer(x)) and run(): a Cursor on x is handed to process,
\* whose local buffer starts empty
run(x) ==
    /\ pc = "idle"
    /\ calls < MaxCalls
    /\ pc' = "process"
    /\ op' = "run"
    /\ input' = x
    /\ pos' = 0
    /\ buffer' = <<>>
    /\ calls' = calls + 1
    /\ UNCHANGED <<editor, output>>
    /\ LegacyFrame

\* one iteration of `for line in reader.lines()`
ProcessLine ==
    /\ pc = "process"
    /\ pos < Len(input)
    /\ LET raw == read_line(input, pos)
           line == lines_item(raw) \o <<"\n">>
           added == add_line(editor, line)
           tried == try_output(added.editor)
       IN  /\ pos' = pos + Len(raw)
           /\ IF added.panicked
              THEN /\ editor' = added.editor
                   /\ buffer' = buffer
                   /\ pc' = "panicked"
              ELSE /\ editor' = tried.editor
                   /\ buffer' = push_edited(buffer, tried.value)
                   /\ pc' = pc
    /\ UNCHANGED <<op, input, output, calls>>
    /\ LegacyFrame

\* the lines are exhausted: get_remaining_output, then the local buffer is
\* pushed to the Output::Buffer
ProcessEnd ==
    /\ pc = "process"
    /\ pos = Len(input)
    /\ LET rest == get_remaining_output(editor)
       IN  /\ editor' = rest.editor
           /\ buffer' = push_edited(buffer, rest.value)
           /\ output' = output \o push_edited(buffer, rest.value)
    /\ pc' = "returned"
    /\ UNCHANGED <<op, input, pos, calls>>
    /\ LegacyFrame

\* set_output(Output::Buffer(..)) with a new empty String
set_output ==
    /\ pc = "returned"
    /\ pc' = "idle"
    /\ output' = <<>>
    /\ UNCHANGED <<editor, buffer, op, input, pos, calls>>
    /\ LegacyFrame

\* runs of one LinurgyBuilder from buffer to buffer
NextLegacy ==
    \/ \E x \in LegacyTexts : run(x)
    \/ ProcessLine
    \/ ProcessEnd
    \/ set_output

SpecLegacy == InitLegacy /\ [][NextLegacy]_vars

(* ------------- the legacy Editor called directly (lib.rs) ------------- *)

\* length an Editor's buffer may have when add_line is called
MaxLegacyBuf == 2

\* the lines handed to add_line: an empty line and a line with text
LegacyLines == {<<"\n">>, <<"a", "\n">>}

\* ed.add_line(&line)
AddLine(line) ==
    /\ pc = "idle"
    /\ Len(editor.buffer) <= MaxLegacyBuf
    /\ LET added == add_line(editor, line)
       IN  /\ editor' = added.editor
           /\ output' = added.value
           /\ pc' = IF added.panicked THEN "panicked" ELSE pc
    /\ op' = "add_line"
    /\ input' = line
    /\ UNCHANGED <<buffer, pos, calls>>
    /\ LegacyFrame

\* ed.try_output()
TryOutput ==
    /\ pc = "idle"
    /\ LET tried == try_output(editor)
       IN  /\ editor' = tried.editor
           /\ output' = tried.value
    /\ op' = "try_output"
    /\ input' = <<>>
    /\ UNCHANGED <<pc, buffer, pos, calls>>
    /\ LegacyFrame

\* ed.get_remaining_output()
GetRemainingOutput ==
    /\ pc = "idle"
    /\ LET rest == get_remaining_output(editor)
       IN  /\ editor' = rest.editor
           /\ output' = rest.value
    /\ op' = "get_remaining_output"
    /\ input' = <<>>
    /\ UNCHANGED <<pc, buffer, pos, calls>>
    /\ LegacyFrame

\* method calls on one legacy Editor
NextLegacyEditor ==
    \/ \E line \in LegacyLines : AddLine(line)
    \/ TryOutput
    \/ GetRemainingOutput

SpecLegacyEditor == InitLegacy /\ [][NextLegacyEditor]_vars

(* ----------------------- EditorBuilder (builder) ---------------------- *)

\* struct EditorBuilder
EditorBuilder(rep, trigger, newline, text, edit_type, dirty) ==
    [replace |-> rep, trigger |-> trigger, newline |-> newline, text |-> text,
     edit_type |-> edit_type, dirty |-> dirty]

\* EditorBuilder::default
EditorBuilderDefault == EditorBuilder(<<>>, 0, Lf, <<>>, EditTypeReplace, FALSE)

\* prepare that keeps the replace string of the last preparation
prepare_keeps_replace(b) == [b EXCEPT !.dirty = FALSE]

\* prepare: clear the replace string, push the parts the edit type asks for
prepare(b) ==
    LET cleared == <<>>
        pushed ==
            IF b.edit_type = EditTypeAppend THEN cleared \o as_str(b.newline) \o b.text
            ELSE IF b.edit_type = EditTypeInsert THEN cleared \o b.text \o as_str(b.newline)
            ELSE cleared \o b.text
    IN  [b EXCEPT !.replace = pushed, !.dirty = FALSE]

\* build_prepared: the arguments handed to BasicEditor::new
build_prepared(b) ==
    [replace |-> b.replace, newlines |-> b.trigger, line_ending |-> b.newline]

\* a new EditorBuilder; no Editor is built yet, and the variables of one hold
\* what BasicEditor::default() would
InitBuilder ==
    /\ builder = EditorBuilderDefault
    /\ replace = <<>>
    /\ newlines = 0
    /\ line_ending = Lf
    /\ overflow_checks \in BOOLEAN
    /\ pc = "builder"
    /\ op = "new"
    /\ input = <<>>
    /\ pos = 0
    /\ nl_count = 0
    /\ output = <<>>
    /\ calls = 0
    /\ threads = <<>>
    /\ factory = <<>>
    /\ editor = <<>>
    /\ buffer = <<>>
    /\ sink_len = 0
    /\ io_log = <<>>
    /\ piped = <<>>

\* what a method of the builder leaves alone
BuilderFrame ==
    UNCHANGED <<overflow_checks, input, pos, nl_count, output, calls, threads,
                factory, editor, buffer, sink_len, io_log, piped>>

\* a setter: the builder changes, no Editor is made
Setter(name, b) ==
    /\ pc = "builder"
    /\ builder' = b
    /\ op' = name
    /\ UNCHANGED <<pc, replace, newlines, line_ending>>
    /\ BuilderFrame

NewlineTrigger(trigger) ==
    Setter("newline_trigger", [builder EXCEPT !.dirty = TRUE, !.trigger = trigger])

\* text that leaves the dirty flag as it is
Text_keeps_clean(text) == Setter("text", [builder EXCEPT !.text = text])

Text(text) == Setter("text", [builder EXCEPT !.dirty = TRUE, !.text = text])

SetAppend ==
    Setter("append", [builder EXCEPT !.dirty = TRUE, !.edit_type = EditTypeAppend])

SetInsert ==
    Setter("insert", [builder EXCEPT !.dirty = TRUE, !.edit_type = EditTypeInsert])

SetReplace ==
    Setter("replace", [builder EXCEPT !.dirty = TRUE, !.edit_type = EditTypeReplace])

NewlineLf == Setter("newline_lf", [builder EXCEPT !.dirty = TRUE, !.newline = Lf])

NewlineCrlf == Setter("newline_crlf", [builder EXCEPT !.dirty = TRUE, !.newline = Crlf])

Prepare == Setter("prepare", prepare(builder))

\* the Editor a build method returns
Built(name, b) ==
    /\ pc = "builder"
    /\ builder' = b
    /\ replace' = build_prepared(b).replace
    /\ newlines' = build_prepared(b).newlines
    /\ line_ending' = build_prepared(b).line_ending
    /\ pc' = "built"
    /\ op' = name
    /\ BuilderFrame

\* build: prepare if dirty, then build_prepared
Build == Built("build", IF builder.dirty THEN prepare(builder) ELSE builder)

BuildPrepared == Built("build_prepared", builder)

\* the Editor built goes out of scope; the builder stays
DropEditor ==
    /\ pc = "built"
    /\ pc' = "builder"
    /\ replace' = <<>>
    /\ newlines' = 0
    /\ line_ending' = Lf
    /\ UNCHANGED <<builder, op>>
    /\ BuilderFrame

\* any sequence of calls on one EditorBuilder
NextBuilder ==
    \/ \E trigger \in Triggers : NewlineTrigger(trigger)
    \/ \E text \in FactoryTexts : Text(text)
    \/ SetAppend
    \/ SetInsert
    \/ SetReplace
    \/ NewlineLf
    \/ NewlineCrlf
    \/ Prepare
    \/ Build
    \/ BuildPrepared
    \/ DropEditor

SpecBuilder == InitBuilder /\ [][NextBuilder]_vars

(* ------------- edit and edit_buffered on short texts ------------------ *)

\* length of the texts both methods are called on
MaxCounterLen == 3

CounterTexts == UNION {[1..n -> Chars] : n \in 0..MaxCounterLen}

\* calls of edit and of edit_buffered on one Editor
NextCounter ==
    \/ \E x \in CounterTexts : CallEdit(x)
    \/ \E x \in CounterTexts : CallEditBuffered(x)
    \/ EditLfChar
    \/ EditCrlfChar
    \/ EditLfReturn
    \/ EditCrlfReturn
    \/ BufferedLine
    \/ BufferedEof
    \/ Drop

SpecCounter == Init /\ [][NextCounter]_vars

(* ------------- the output of one Editor edited by another ------------- *)

\* length of the text given to the first Editor
MaxPipeLen == 3

PipeTexts == UNION {[1..n -> Chars] : n \in 0..MaxPipeLen}

\* let output = replacer("\n", n).edit(&output): a second Editor is built
\* and edits what the first returned
EditOutput(n) ==
    /\ pc = "returned"
    /\ piped = <<>>
    /\ LET f == Factory(<<"\n">>, n, EditTypeReplace, Lf)
           e == create_editor(f)
       IN  /\ piped' = [factory |-> factory, input |-> input]
           /\ factory' = f
           /\ replace' = e.replace
           /\ newlines' = e.newlines
           /\ line_ending' = e.line_ending
    /\ pc' = "edit_lf"
    /\ op' = "edit"
    /\ input' = output
    /\ pos' = 0
    /\ nl_count' = 0
    /\ output' = <<>>
    /\ calls' = calls + 1
    /\ UNCHANGED <<overflow_checks, threads, editor, buffer, sink_len, io_log, builder>>

\* appender("\n", n).edit(x), then replacer("\n", m).edit of what it returned
NextPipe ==
    \/ \E n \in Triggers : appender(<<"\n">>, n)
    \/ \E x \in PipeTexts : CallEdit(x)
    \/ \E n \in Triggers : EditOutput(n)
    \/ EditLfChar
    \/ EditLfReturn

SpecPipe == InitFactory /\ [][NextPipe]_vars

(* ------------------------------ claims -------------------------------- *)

Returned(m) == pc = "returned" /\ op = m

\* C1: with trigger 0, edit returns its input byte for byte, whatever the
\* replacement and the line style; it never panics instead of returning.
C1_ZeroTriggerIdentity ==
    (op = "edit" /\ newlines = 0) =>
        /\ pc # "panicked"
        /\ pc = "returned" => output = input

\* C2: the bytes edit_buffered writes to the sink, reading the source line by
\* line, are the String edit returns for the same text.
C2_BufferedEqualsEdit ==
    Returned("edit_buffered") =>
        /\ ~edit(input).panicked
        /\ output = edit(input).output

\* C3: with trigger 0, edit_buffered writes exactly the bytes of the source,
\* terminated last line or not; the replacement is never written.
C3_BufferedZeroTriggerIdentity ==
    (Returned("edit_buffered") /\ newlines = 0) => output = input

(* Runs.  A newline of the style is "\n" in Lf style; in Crlf style it is    *)
(* "\r\n", and a "\n" with no "\r" before it counts the same (see C9).     *)
(* Every other character is content; a "\r" that no "\n" follows is        *)
(* neither (see C8), and a stretch holding one is not taken for a run.     *)

IsContent(c) == IF line_ending = Lf THEN c # "\n" ELSE c \notin {"\n", "\r"}

\* s: a run can start after the first s characters of x
RunStarts(x) == {s \in 0..Len(x) : s = 0 \/ IsContent(x[s])}

\* e: a run can end with the e-th character of x
RunEnds(x) == {e \in 1..Len(x) : e = Len(x) \/ IsContent(x[e + 1])}

\* x[s+1..e] is a maximal run of newlines of the style
IsRun(x, s, e) ==
    /\ s < e
    /\ \A i \in (s + 1)..e : ~IsContent(x[i])
    /\ \A i \in (s + 1)..e : x[i] = "\r" => (i < e /\ x[i + 1] = "\n")

\* newlines among x[s+1..e]
Units(x, s, e) == Cardinality({i \in (s + 1)..e : x[i] = "\n"})

Running == pc \in {"edit_lf", "edit_crlf"}

\* what edit returns for the text before / after a run
Before(s) == edit(SubSeq(input, 1, s)).output

After(e) == edit(SubSeq(input, e + 1, Len(input))).output

\* C4: for trigger t > 0, a maximal run of exactly t newlines is replaced by
\* exactly one copy of the replacement, no literal newline is emitted for
\* it, and the run counter is 0 right after the firing.
C4_ExactRunReplaced ==
    (op = "edit" /\ newlines > 0) =>
        \A s \in RunStarts(input), e \in RunEnds(input) :
            (IsRun(input, s, e) /\ Units(input, s, e) = newlines) =>
                /\ (Running /\ pos = e) =>
                       (output = Before(s) \o replace /\ nl_count = 0)
                /\ pc = "returned" =>
                       output = Before(s) \o replace \o After(e)

\* a run of exactly t newlines between two content characters has been edited
C4_Witness ==
    /\ Returned("edit")
    /\ newlines = 2
    /\ \E s \in RunStarts(input), e \in RunEnds(input) :
           /\ 0 < s /\ e < Len(input)
           /\ IsRun(input, s, e)
           /\ Units(input, s, e) = newlines

\* C5: for trigger t > 0, a maximal run of k newlines comes out as k div t
\* copies of the replacement followed by k mod t literal newlines of the
\* style; inside the run the counter is the number of newlines seen modulo t.
C5_RunQuotientRemainder ==
    (op = "edit" /\ newlines > 0) =>
        /\ pc # "panicked"
        /\ \A s \in RunStarts(input), e \in RunEnds(input) :
               IsRun(input, s, e) =>
                   /\ pc = "returned" =>
                          LET k == Units(input, s, e)
                          IN  output = Before(s)
                                  \o Rep(replace, k \div newlines)
                                  \o Rep(as_str(line_ending), k % newlines)
                                  \o After(e)
                   /\ (Running /\ pos \in s..e) =>
                          LET j == Units(input, s, pos)
                          IN  /\ nl_count = j % newlines
                              /\ output = Before(s) \o Rep(replace, j \div newlines)

\* a run of 2t or 2t + 1 newlines next to other text has been edited: the
\* replacement twice with no newline between
C5_Witness ==
    /\ Returned("edit")
    /\ newlines > 0
    /\ replace # <<>>
    /\ \E s \in RunStarts(input), e \in RunEnds(input) :
           /\ IsRun(input, s, e)
           /\ Units(input, s, e) \in {2 * newlines, 2 * newlines + 1}
           /\ output = Before(s) \o replace \o replace
                           \o Rep(as_str(line_ending), Units(input, s, e) % newlines)
                           \o After(e)
           /\ Len(output) > Len(replace) + Len(replace)

\* x is well-formed in the style: in Crlf style every "\r" is followed by
\* "\n" and every "\n" preceded by "\r"
WellFormed(x) ==
    line_ending = Crlf =>
        \A i \in 1..Len(x) :
            /\ x[i] = "\n" => (i > 1 /\ x[i - 1] = "\r")
            /\ x[i] = "\r" => (i < Len(x) /\ x[i + 1] = "\n")

\* every maximal run of x is shorter than the trigger
ShortRuns(x) ==
    \A s \in RunStarts(x), e \in RunEnds(x) :
        IsRun(x, s, e) => Units(x, s, e) < newlines

\* the first p characters end between the "\r" and the "\n" of a pair
MidPair(p) == line_ending = Crlf /\ p >= 1 /\ input[p] = "\r"

\* C6: for trigger t > 0 and a well-formed input whose runs are all shorter
\* than t, edit returns the input unchanged (leading run, trailing run, no
\* trailing newline); while it runs, the output followed by the pending
\* newlines is the text read so far, and a character that ends a run has the
\* run's newlines right before it.
C6_ShortRunsUnchanged ==
    (op = "edit" /\ newlines > 0 /\ WellFormed(input) /\ ShortRuns(input)) =>
        /\ pc # "panicked"
        /\ pc = "returned" => output = input
        /\ (Running /\ ~MidPair(pos)) =>
               output \o Rep(as_str(line_ending), nl_count) = SubSeq(input, 1, pos)
        /\ (Running /\ pos >= 1 /\ IsContent(input[pos])) =>
               (nl_count = 0 /\ output = SubSeq(input, 1, pos))

\* a text with a leading and a trailing partial run has been returned
C6_Witness ==
    /\ Returned("edit")
    /\ newlines > 0
    /\ WellFormed(input) /\ ShortRuns(input)
    /\ Len(input) >= 3
    /\ input[1] = "\n" /\ input[Len(input)] = "\n"
    /\ output = input

\* x without its "\n" and "\r" characters
RECURSIVE StripRange(_, _, _)
StripRange(x, lo, hi) ==
    IF lo > hi THEN <<>>
    ELSE IF lo = hi THEN (IF x[lo] \in {"\n", "\r"} THEN <<>> ELSE <<x[lo]>>)
    ELSE LET mid == (lo + hi) \div 2
         IN  StripRange(x, lo, mid) \o StripRange(x, mid + 1, hi)

Strip(x, i) == StripRange(x, i, Len(x))

\* what one iteration of edit may push: nothing, the replacement, or the
\* pending newlines followed by the character read
Pushed(c, n) ==
    {<<>>, replace, Rep(as_str(line_ending), n) \o <<c>>}

\* C7: edit copies every input character other than "\n" and "\r" to the
\* output, unchanged and in input order, right after the literal newlines
\* still pending; it emits nothing but input characters, literal newlines of
\* the style and copies of the replacement.
C7_ContentCopied ==
    /\ [](Returned("edit") /\ replace = <<>> => Strip(output, 1) = Strip(input, 1))
    /\ [][(op = "edit" /\ Running) =>
            /\ pos < Len(input) =>
                   /\ pos' = pos + 1
                   /\ \E piece \in Pushed(input[pos + 1], nl_count) :
                          output' = output \o piece
                   /\ input[pos + 1] \notin {"\n", "\r"} =>
                          output' = output \o Rep(as_str(line_ending), nl_count)
                                           \o <<input[pos + 1]>>
            /\ pos = Len(input) =>
                   output' = output \o Rep(as_str(line_ending), nl_count)
         ]_vars

\* a content character with a pending newline before it has been copied
C7_Witness ==
    /\ Returned("edit")
    /\ newlines = 2
    /\ \E i \in 2..Len(input) :
           /\ input[i] = "a"
           /\ input[i - 1] = "\n"
           /\ (i > 2 => input[i - 2] \notin {"\n"})
    /\ Strip(output, 1) = Strip(input, 1)

\* C8: in Crlf style a "\r" that no "\n" follows is copied to the output at
\* its position and leaves the run counter unchanged.
C8_BareCrCopied ==
    [][(op = "edit" /\ pc = "edit_crlf" /\ pos < Len(input)
          /\ input[pos + 1] = "\r"
          /\ (pos + 1 = Len(input) \/ input[pos + 2] # "\n")) =>
            /\ output' = output \o <<"\r">>
            /\ nl_count' = nl_count
      ]_vars

\* x with a "\r" put before every "\n" that has none
RECURSIVE PairRange(_, _, _)
PairRange(x, lo, hi) ==
    IF lo > hi THEN <<>>
    ELSE IF lo = hi
    THEN (IF x[lo] = "\n" /\ (lo = 1 \/ x[lo - 1] # "\r")
          THEN <<"\r", "\n">> ELSE <<x[lo]>>)
    ELSE LET mid == (lo + hi) \div 2
         IN  PairRange(x, lo, mid) \o PairRange(x, mid + 1, hi)

PairUp(x, i) == PairRange(x, i, Len(x))

\* no run of x reaches the trigger
RunsPending(x) ==
    \A s \in RunStarts(x), e \in RunEnds(x) :
        IsRun(x, s, e) =>
            Units(x, s, e) < (IF newlines = 0 THEN U8 ELSE newlines)

\* C9: in Crlf style a "\n" with no "\r" before it moves the run counter as
\* a full "\r\n" does (the call ends with the counter and the output it has
\* on the text with every such "\n" completed to "\r\n"), and flushed
\* without firing it comes out as "\r\n".
C9_BareLfCounts ==
    (op = "edit" /\ line_ending = Crlf) =>
        /\ pc = "returned" =>
               /\ nl_count = crlf_loop(PairUp(input, 1), 1, St(<<>>, 0, FALSE)).nl_count
               /\ output = edit(PairUp(input, 1)).output
        /\ pc = "panicked" => edit(PairUp(input, 1)).panicked
        /\ (pc = "returned" /\ RunsPending(input)
              /\ \A i \in 1..Len(input) : input[i] # "\r") =>
               output = PairUp(input, 1)

\* a text whose newlines are all bare "\n" came back with "\r\n" in their place
C9_Witness ==
    /\ Returned("edit")
    /\ line_ending = Crlf
    /\ newlines = 2
    /\ \A i \in 1..Len(input) : input[i] # "\r"
    /\ \E i \in 1..Len(input) : input[i] = "\n"
    /\ \E i \in 1..Len(input) : input[i] = "a"
    /\ RunsPending(input)
    /\ output = PairUp(input, 1)

\* C10: an Editor is reusable: a later call returns what a call on a fresh
\* Editor of the same configuration returns, every call starts with the run
\* counter at 0 and an empty output, and no step of edit changes replace,
\* newlines or line_ending.
C10_ReuseNoLeak ==
    /\ [](op = "edit" =>
            /\ (Running /\ pos = 0) => (nl_count = 0 /\ output = <<>>)
            /\ (calls >= 2 /\ pc = "returned") =>
                   (~edit(input).panicked /\ output = edit(input).output)
            /\ (calls >= 2 /\ pc = "panicked") => edit(input).panicked)
    /\ [][self' = self]_vars

\* a second call on the same Editor has returned an edited text, itself
\* ending inside a partial run
C10_Witness ==
    /\ Returned("edit")
    /\ calls = 2
    /\ newlines = 2
    /\ nl_count = 1
    /\ output # input

\* the locals of a sequential edit of x after its first i characters
Sequential(x, i) ==
    IF line_ending = Lf
    THEN lf_loop(SubSeq(x, 1, i), 1, St(<<>>, 0, FALSE))
    ELSE crlf_loop(SubSeq(x, 1, i), 1, St(<<>>, 0, FALSE))

\* C11: threads calling edit at the same time on one shared Editor: at every
\* point of every call the counter and the output are those of a sequential
\* call at that point, so each call returns what a sequential call with its
\* input returns; a step of one thread changes no other thread's counter or
\* output, and no step writes the Editor's configuration.
C11_ThreadsIndependent ==
    /\ [](\A t \in Threads :
            /\ threads[t].pc \in {"edit_lf", "edit_crlf"} =>
                   /\ threads[t].output = Sequential(input, threads[t].pos).output
                   /\ threads[t].nl_count = Sequential(input, threads[t].pos).nl_count
            /\ threads[t].pc = "returned" =>
                   threads[t].output = edit(input).output)
    /\ [][/\ self' = self
          /\ \A t, u \in Threads :
                 (t # u /\ threads'[t] # threads[t]) => threads'[u] = threads[u]]_vars

\* a thread has returned an edited text while another is inside a run
C11_Witness ==
    \E t, u \in Threads :
        /\ t # u
        /\ threads[t].pc = "returned"
        /\ threads[t].output # input
        /\ threads[u].pc \in {"edit_lf", "edit_crlf"}
        /\ threads[u].nl_count > 0
        /\ threads[u].pos < Len(input)

\* C12: the Editor a factory function returns has the trigger and the line
\* style it was given; its replacement is, for Append, trigger copies of
\* the style's newline sequence followed by the text; for Insert, the text
\* followed by trigger copies; for Replace, the text alone.  An empty text
\* with trigger 0 gives an empty replacement whatever the edit type.
C12_FactoryConfig ==
    pc # "factory" =>
        LET nls == [i \in 1..(factory.trigger * Len(as_str(factory.newline))) |->
                        IF factory.newline = Crlf /\ i % 2 = 1 THEN "\r" ELSE "\n"]
        IN  /\ newlines = factory.trigger
            /\ line_ending = factory.newline
            /\ factory.edit_type = EditTypeAppend => replace = nls \o factory.text
            /\ factory.edit_type = EditTypeInsert => replace = factory.text \o nls
            /\ factory.edit_type = EditTypeReplace => replace = factory.text
            /\ (factory.text = <<>> /\ factory.trigger = 0) => replace = <<>>

\* appender_crlf with a text and trigger 2 has been called
C12_Witness ==
    /\ pc = "idle"
    /\ factory.edit_type = EditTypeAppend
    /\ factory.newline = Crlf
    /\ factory.trigger = 2
    /\ replace = <<"\r", "\n", "\r", "\n", "-">>

\* the number of consecutive newline sequences of the style that start right
\* after the first i characters of x
RECURSIVE NewlinesAt(_, _)
NewlinesAt(x, i) ==
    LET nl == as_str(line_ending)
    IN  IF i + Len(nl) <= Len(x) /\ SubSeq(x, i + 1, i + Len(nl)) = nl
        THEN 1 + NewlinesAt(x, i + Len(nl))
        ELSE 0

\* x from its first i characters on, with `before` put before and `after`
\* put after every block of t consecutive newlines, all else as it is
RECURSIVE Blockwise(_, _, _, _, _)
Blockwise(x, i, t, before, after) ==
    LET nl == as_str(line_ending)
        k == NewlinesAt(x, i)
    IN  IF i >= Len(x) THEN <<>>
        ELSE IF k >= t
        THEN before \o Rep(nl, t) \o after
                 \o Blockwise(x, i + t * Len(nl), t, before, after)
        ELSE IF k > 0
        THEN Rep(nl, k) \o Blockwise(x, i + k * Len(nl), t, before, after)
        ELSE <<x[i + 1]>> \o Blockwise(x, i + 1, t, before, after)

\* C13: for a trigger t > 0 and a well-formed input, the Editor of appender
\* returns the input with the text added right after each block of t
\* consecutive newlines, the Editor of inserter returns it with the text
\* added right before each block; every newline is kept and the newlines
\* that complete no block are untouched.
C13_AppendInsertBlocks ==
    (Returned("edit") /\ factory.trigger > 0 /\ WellFormed(input)) =>
        /\ factory.edit_type = EditTypeAppend =>
               output = Blockwise(input, 0, factory.trigger, <<>>, factory.text)
        /\ factory.edit_type = EditTypeInsert =>
               output = Blockwise(input, 0, factory.trigger, factory.text, <<>>)

\* an inserter of trigger 2 has edited a text with a block after content and
\* a newline that completes no block
C13_Witness ==
    /\ Returned("edit")
    /\ factory.edit_type = EditTypeInsert
    /\ factory.trigger = 2
    /\ factory.text = <<"-">>
    /\ input = <<"a", "\n", "\n", "\n">>
    /\ output = <<"a", "-", "\n", "\n", "\n">>

IoErrs == {"read_line Err", "write_all Err"}

IsPrefix(s, t) == Len(s) <= Len(t) /\ s = SubSeq(t, 1, Len(s))

\* edit_buffered as a function of the source's text, on an empty sink that
\* never fails
RECURSIVE buffered_loop(_, _, _)
buffered_loop(x, p, st) ==
    IF st.panicked THEN st
    ELSE IF p >= Len(x)
    THEN St(st.output \o Rep(as_str(line_ending), st.nl_count), 0, FALSE)
    ELSE LET buf == read_line(x, p)
         IN  buffered_loop(x, p + Len(buf), buffered_line(st.output, buf, st.nl_count))

\* C14: when read_line or write_all fails during edit_buffered the call
\* returns that error at once: the failed call is the last one made on the
\* source or the sink (nothing is read or written after it, nothing is
\* retried), and what was written before it stays in the sink, which then
\* holds a prefix of what the call would have written had nothing failed.
C14_IoErrorReturned ==
    /\ [](/\ \A i \in 1..(Len(io_log) - 1) : io_log[i] \notin IoErrs
          /\ pc = "failed" <=> (io_log # <<>> /\ io_log[Len(io_log)] \in IoErrs)
          /\ pc \in {"failed", "returned"} =>
                 IsPrefix(output, buffered_loop(input, 0, St(<<>>, 0, FALSE)).output)
          /\ pc = "returned" =>
                 output = buffered_loop(input, 0, St(<<>>, 0, FALSE)).output)
    /\ [][pc # "failed" /\ IsPrefix(output, output')]_vars

\* a write_all failed part-way through its chunk after an earlier write_all
\* had succeeded
C14_Witness ==
    /\ pc = "failed"
    /\ Len(io_log) >= 3
    /\ io_log[Len(io_log)] = "write_all Err"
    /\ io_log[Len(io_log) - 1] = "write_all"
    /\ replace # <<>>
    /\ output = <<"a", "-">>

\* C15: neither edit nor edit_buffered panics, whatever the input text, the
\* trigger, the replacement and the style (in Crlf style also on lines that
\* end in a bare "\n"): a call that has started is running or has returned.
C15_NeverPanics ==
    op \in {"edit", "edit_buffered"} => pc # "panicked"

\* the input ends with a maximal run that starts after its first s
\* characters and has fewer than trigger newlines
ShortTrailingRun(s) ==
    /\ newlines > 0
    /\ s \in RunStarts(input)
    /\ IsRun(input, s, Len(input))
    /\ Units(input, s, Len(input)) < newlines

\* C16: when the source is exhausted the last thing edit_buffered writes is
\* exactly as many copies of the style's newline sequence as the pending
\* count.  For a run that ends the input with fewer than trigger newlines
\* the replacement is never written: while the run is read the pending count
\* is the number of its newlines read so far and nothing is written, and
\* they are written as literal newlines at the end.
C16_TrailingRunFlushed ==
    /\ [][(pc = "edit_buffered" /\ pos = Len(input)) =>
              /\ output' = output \o Rep(as_str(line_ending), nl_count)
              /\ pc' = "returned"]_vars
    /\ [](pc = "edit_buffered" =>
              \A s \in 0..(pos - 1) :
                  ShortTrailingRun(s) => nl_count = Units(input, s, pos))
    /\ [][(pc = "edit_buffered" /\ pos < Len(input)) =>
              \A s \in 0..(pos - 1) : ShortTrailingRun(s) => output' = output]_vars

\* the terminator of the line buf: "\r\n" in Crlf style, else the "\n" the
\* line ends with, if it ends with one
Terminator(buf) ==
    IF buf[Len(buf)] # "\n" THEN <<>>
    ELSE IF line_ending = Crlf /\ Len(buf) >= 2 /\ buf[Len(buf) - 1] = "\r"
    THEN <<"\r", "\n">>
    ELSE <<"\n">>

\* C17: edit_buffered writes every byte of every line other than the line's
\* terminator, unchanged and in order, in both styles and for a last line
\* without terminator: the iteration that reads a line appends the line's
\* content to the sink, with nothing but the pending newlines before it and
\* the replacement after it.
C17_LineContentWritten ==
    [][(pc = "edit_buffered" /\ pos < Len(input)) =>
          LET buf == read_line(input, pos)
              content == SubSeq(buf, 1, Len(buf) - Len(Terminator(buf)))
          IN  \E pre \in {<<>>, Rep(as_str(line_ending), nl_count)},
                 post \in {<<>>, replace} :
                  output' = output \o pre \o content \o post]_vars

\* C18: edit_buffered only appends to the sink.  The bytes the sink held
\* before a call stay as they are through every step of the call; a second
\* call with the same sink starts with counter 0 and leaves, after the
\* first call's output, exactly what it writes to an empty sink.
C18_SinkAppended ==
    /\ [][(pc \in {"kept", "edit_buffered"}) => IsPrefix(output, output')]_vars
    /\ [][pc = "kept" =>
              /\ nl_count' = 0
              /\ output' = output]_vars
    /\ []((op = "edit_buffered again" /\ pc # "idle") =>
              /\ sink_len <= Len(output)
              /\ pc = "returned" =>
                     SubSeq(output, sink_len + 1, Len(output))
                         = buffered_loop(input, 0, St(<<>>, 0, FALSE)).output)

\* a second call has returned: the first left "a" and a newline in the
\* sink, the second wrote a newline behind it, and the two newlines did not
\* make a run of the trigger's length
C18_Witness ==
    /\ op = "edit_buffered again"
    /\ pc = "returned"
    /\ line_ending = Lf
    /\ newlines = 2
    /\ replace # <<>>
    /\ sink_len = 2
    /\ input = <<"\n">>
    /\ output = <<"a", "\n", "\n">>

\* C19: on a finite input (source and sink never failing) every call of
\* edit_buffered returns Ok and every call of edit returns; edit_buffered
\* asks for each line once, taking the lines in order up to the end of the
\* input, which it sees once, and edit visits each character once from left
\* to right, never stepping back.
C19_Terminates ==
    /\ (pc = "edit_buffered") ~> (pc = "returned")
    /\ (pc \in {"edit_lf", "edit_crlf"}) ~> (pc = "returned")
    /\ [][/\ pc = "edit_buffered" =>
               \/ pos < Len(input) /\ pos' = line_end(input, pos)
               \/ pos = Len(input) /\ pos' = pos /\ pc' = "returned"
          /\ (pc \in {"edit_lf", "edit_crlf"}) =>
               \/ pos < Len(input) /\ pos' = pos + 1
               \/ pos = Len(input) /\ pos' = pos /\ pc' = "returned"]_vars

\* x from its first p characters on without its empty lines: a line is
\* empty when there is nothing before its "\n"
RECURSIVE RemoveEmptyLines(_, _)
RemoveEmptyLines(x, p) ==
    IF p >= Len(x) THEN <<>>
    ELSE LET raw == read_line(x, p)
         IN  (IF raw = <<"\n">> THEN <<>> ELSE raw) \o RemoveEmptyLines(x, p + Len(raw))

\* C20: the legacy LinurgyBuilder with trigger 1, edit type Replace and new
\* text "", run from a buffer to a buffer, yields the input with every empty
\* line removed and every other line as it is, in order.
C20_LegacyRemovesEmptyLines ==
    (/\ op = "run"
     /\ pc = "returned"
     /\ editor.newline_count_trigger = 1
     /\ editor.edit_type = EditTypeReplace
     /\ editor.new_text = <<>>) => output = RemoveEmptyLines(input, 0)

\* the lines of x from its first p characters on, each with its terminator
RECURSIVE RawLines(_, _)
RawLines(x, p) ==
    IF p >= Len(x) THEN <<>>
    ELSE LET raw == read_line(x, p)
         IN  <<raw>> \o RawLines(x, p + Len(raw))

\* the number of consecutive empty lines that end at line i of ls
RECURSIVE EmptyRun(_, _)
EmptyRun(ls, i) ==
    IF i = 0 \/ ls[i] # <<"\n">> THEN 0 ELSE 1 + EmptyRun(ls, i - 1)

\* the lines ls from line i on, with text put after every line that
\* completes t consecutive empty lines since the last such line
RECURSIVE TextAfterRuns(_, _, _, _, _)
TextAfterRuns(ls, i, n, t, text) ==
    IF i > Len(ls) THEN <<>>
    ELSE IF ls[i] = <<"\n">> /\ n + 1 = t
    THEN ls[i] \o text \o TextAfterRuns(ls, i + 1, 0, t, text)
    ELSE ls[i] \o TextAfterRuns(ls, i + 1, IF ls[i] = <<"\n">> THEN n + 1 ELSE 0, t, text)

\* C21: the first run of a legacy LinurgyBuilder from a buffer to a buffer,
\* with a trigger above 0, writes the input unchanged when the input has no
\* run of trigger consecutive empty lines; in Append mode it writes every
\* input line, in order, with new_text after each run that fires.
C21_LegacyProcess ==
    (/\ op = "run"
     /\ pc = "returned"
     /\ calls = 1
     /\ editor.newline_count_trigger > 0) =>
        LET ls == RawLines(input, 0)
        IN  /\ (\A i \in 1..Len(ls) : EmptyRun(ls, i) < editor.newline_count_trigger)
                   => output = input
            /\ editor.edit_type = EditTypeAppend =>
                   output = TextAfterRuns(ls, 1, 0, editor.newline_count_trigger,
                                          editor.new_text)

\* the line buf without its terminator
Content(buf) == SubSeq(buf, 1, Len(buf) - Len(Terminator(buf)))

\* C22: for a line that has content, the iteration of edit_buffered writes
\* one literal newline sequence per pending count, then the line's content
\* without its terminator, and nothing else but a replacement that fires;
\* the line's terminator, if present, is not written and makes the count 1
\* (0 again if that fires the trigger), and without terminator the count
\* ends at 0.
C22_ContentLineOrder ==
    [][(pc = "edit_buffered" /\ pos < Len(input)
          /\ Content(read_line(input, pos)) # <<>>) =>
          LET buf == read_line(input, pos)
              written == output \o Rep(as_str(line_ending), nl_count) \o Content(buf)
              count == IF Terminator(buf) = <<>> THEN 0 ELSE 1
          IN  /\ pc' = pc
              /\ IF count = newlines
                 THEN output' = written \o replace /\ nl_count' = 0
                 ELSE output' = written /\ nl_count' = count]_vars

\* C23: a line that is exactly the style's newline sequence makes the
\* iteration of edit_buffered add one to the run counter and write nothing,
\* unless that brings the counter to the trigger: then exactly one copy of
\* the replacement is written and the counter is 0 again.
C23_NewlineLineCounts ==
    [][(pc = "edit_buffered" /\ pos < Len(input)
          /\ read_line(input, pos) = as_str(line_ending)) =>
          /\ pc' = pc
          /\ IF nl_count + 1 = newlines
             THEN output' = output \o replace /\ nl_count' = 0
             ELSE output' = output /\ nl_count' = nl_count + 1]_vars

\* x with every "\n" twice
RECURSIVE Doubled(_, _, _)
Doubled(x, lo, hi) ==
    IF lo > hi THEN <<>>
    ELSE IF lo = hi THEN (IF x[lo] = "\n" THEN <<"\n", "\n">> ELSE <<x[lo]>>)
    ELSE LET mid == (lo + hi) \div 2
         IN  Doubled(x, lo, mid) \o Doubled(x, mid + 1, hi)

\* C24: the newlines of an emitted replacement are not counted toward a run:
\* the step of edit that fires pushes the replacement and leaves the counter
\* at 0 whatever the replacement holds, so the editor of appender("\n", 1)
\* (trigger 1, replacement "\n\n", Lf) returns the input with every "\n"
\* doubled and nothing else.
C24_ReplacementNotCounted ==
    /\ [][(op = "edit" /\ Running /\ pos < Len(input)
             /\ input[pos + 1] = "\n" /\ nl_count + 1 = newlines) =>
              /\ nl_count' = 0
              /\ output' = output \o replace]_vars
    /\ []((Returned("edit") /\ newlines = 1 /\ line_ending = Lf
             /\ replace = <<"\n", "\n">>) =>
              output = Doubled(input, 1, Len(input)))

\* the editor of appender("\n", 1) has returned a text with two newlines in
\* a row, each of them doubled
C24_Witness ==
    /\ Returned("edit")
    /\ factory = Factory(<<"\n">>, 1, EditTypeAppend, Lf)
    /\ replace = <<"\n", "\n">>
    /\ input = <<"a", "\n", "\n", "a">>
    /\ output = <<"a", "\n", "\n", "\n", "\n", "a">>

\* new_text applied to the buffer buf under the edit type
Applied(type, buf, text) ==
    IF type = EditTypeAppend THEN buf \o text
    ELSE IF type = EditTypeInsert THEN text \o buf
    ELSE text

\* C25: legacy Editor::add_line appends the line to the buffer; a line "\n"
\* adds one to current_count and any other line makes it 0; when
\* current_count reaches the trigger it is 0 again and new_text is applied
\* to the buffer: after it (Append), at its start (Insert), or in place of
\* the whole buffer (Replace).
C25_LegacyAddLine ==
    [][op' = "add_line" =>
          LET line == input'
              appended == editor.buffer \o line
          IN  /\ pc' = pc
              /\ editor'.newline_count_trigger = editor.newline_count_trigger
              /\ editor'.new_text = editor.new_text
              /\ editor'.edit_type = editor.edit_type
              /\ IF line = <<"\n">>
                      /\ editor.current_count + 1 = editor.newline_count_trigger
                 THEN /\ editor'.current_count = 0
                      /\ editor'.buffer =
                             Applied(editor.edit_type, appended, editor.new_text)
                 ELSE /\ editor'.buffer = appended
                      /\ editor'.current_count =
                             IF line = <<"\n">> THEN editor.current_count + 1 ELSE 0]_vars

\* C26: legacy Editor::try_output returns the whole buffer and leaves it
\* empty exactly when current_count is 0, and returns None with the buffer
\* unchanged when current_count is above 0; get_remaining_output returns and
\* empties any non-empty buffer whatever the count, and returns None for an
\* empty buffer.  Neither changes current_count.
C26_LegacyOutput ==
    /\ [][op' = "try_output" =>
              /\ pc' = pc
              /\ editor'.current_count = editor.current_count
              /\ IF editor.current_count = 0
                 THEN output' = Some(editor.buffer) /\ editor'.buffer = <<>>
                 ELSE output' = None /\ editor'.buffer = editor.buffer]_vars
    /\ [][op' = "get_remaining_output" =>
              /\ pc' = pc
              /\ editor'.current_count = editor.current_count
              /\ IF editor.buffer # <<>>
                 THEN output' = Some(editor.buffer) /\ editor'.buffer = <<>>
                 ELSE output' = None /\ editor'.buffer = editor.buffer]_vars

\* try_output has returned None and left the pending empty line in the
\* buffer, the count being 1 of a trigger of 2
C26_Witness ==
    /\ op = "try_output"
    /\ output = None
    /\ editor.newline_count_trigger = 2
    /\ editor.current_count = 1
    /\ editor.buffer = <<"\n">>

\* the replacement the builder's text, edit type and newline type stand for:
\* the text alone, or the text with one newline sequence before or after it
Derived(b) ==
    IF b.edit_type = EditTypeReplace THEN b.text
    ELSE IF b.edit_type = EditTypeAppend THEN as_str(b.newline) \o b.text
    ELSE b.text \o as_str(b.newline)

C28_BuilderNotStale ==
    /\ [](builder.dirty = FALSE => builder.replace = Derived(builder))
    /\ []((pc = "built" /\ op = "build") =>
              (builder.dirty = FALSE /\ replace = builder.replace))
    /\ [][(pc = "builder" /\ op' = "build") =>
              /\ builder' = prepare(builder)
              /\ <<replace', newlines', line_ending'>> =
                     <<build_prepared(prepare(builder)).replace,
                       build_prepared(prepare(builder)).newlines,
                       build_prepared(prepare(builder)).line_ending>>]_vars

\* build has returned, without preparing again, the editor of a builder that
\* was prepared, used and not changed since
C28_Witness ==
    /\ pc = "built"
    /\ op = "build"
    /\ builder.dirty = FALSE
    /\ builder.edit_type = EditTypeInsert
    /\ builder.text = <<"-">>
    /\ builder.replace = <<"-", "\n">>
    /\ replace = <<"-", "\n">>

\* C29: for every text, trigger, edit type and newline type, the editor
\* EditorBuilder builds after those values are set has the replacement
\* string, trigger and line style of the editor the factory builds from the
\* same values.
C29_BuilderIsFactory ==
    (pc = "built" /\ op = "build") =>
        [replace |-> replace, newlines |-> newlines, line_ending |-> line_ending]
            = create_editor(Factory(builder.text, builder.trigger, builder.edit_type,
                                    builder.newline))

\* C30: for a trigger t > 0 the run counter of edit after every character
\* processed, and the run counter of edit_buffered after the trigger check
\* of every line, is in 0..t-1; in edit it is 0 after every character that
\* is not part of a newline and after every firing.
C30_CounterRange ==
    /\ []((newlines > 0 /\ op \in {"edit", "edit_buffered"} /\ pc # "panicked") =>
              nl_count \in 0..(newlines - 1))
    /\ [][(newlines > 0 /\ op = "edit" /\ Running /\ pos < Len(input)) =>
              /\ pc' # "panicked"
              /\ IsContent(input[pos + 1]) => nl_count' = 0
              /\ (replace # <<>> /\ output' = output \o replace) => nl_count' = 0
              /\ (input[pos + 1] = "\n" /\ nl_count + 1 = newlines) => nl_count' = 0]_vars

\* edit_buffered with trigger 2 has fired on two empty lines and counted a
\* third one
C30_Witness ==
    /\ pc = "edit_buffered"
    /\ newlines = 2
    /\ replace # <<>>
    /\ input = <<"\n", "\n", "\n">>
    /\ pos = 3
    /\ output = replace
    /\ nl_count = 1

\* C31: the 8-bit run counter never overflows: every increment of the
\* counter, in edit (handle_newline on a "\n") and in edit_buffered (a line
\* as long as the newline sequence), completes without a panic and leaves
\* the counter, within 0..255, one above what it was, or at 0 when that
\* value is the trigger and the replacement fires.
C31_CounterNoOverflow ==
    /\ [](nl_count \in 0..(U8 - 1))
    /\ [][((op = "edit" /\ Running /\ pos < Len(input) /\ input[pos + 1] = "\n")
             \/ (op = "edit_buffered" /\ pc = "edit_buffered" /\ pos < Len(input)
                   /\ Len(read_line(input, pos)) = Len(as_str(line_ending)))) =>
              /\ pc' # "panicked"
              /\ IF nl_count + 1 = newlines
                 THEN nl_count' = 0
                 ELSE nl_count' = nl_count + 1]_vars

\* the places where x can be cut into a and b with a empty or ending in a
\* character other than "\n"
Cuts(x) == {k \in 0..Len(x) : k = 0 \/ x[k] # "\n"}

\* C32: in Lf style, for texts a and b with a empty or ending in a character
\* other than "\n", edit(a ++ b) = edit(a) ++ edit(b): what a call of edit
\* returns on a text is, at each such cut of the text, what edit returns on
\* the part before the cut followed by what it returns on the part after
\* it, and the call panics only where one of the two parts does.
C32_EditSplits ==
    (op = "edit" /\ line_ending = Lf) =>
        \A k \in Cuts(input) :
            LET a == edit(SubSeq(input, 1, k))
                b == edit(SubSeq(input, k + 1, Len(input)))
            IN  /\ pc = "returned" =>
                       (~a.panicked /\ ~b.panicked /\ output = a.output \o b.output)
                /\ pc = "panicked" => (a.panicked \/ b.panicked)

\* edit has returned a text cut after its "a", with a run that fires on
\* each side of the cut
C32_Witness ==
    /\ Returned("edit")
    /\ line_ending = Lf
    /\ newlines = 1
    /\ replace # <<>>
    /\ input = <<"\n", "a", "\n">>
    /\ 2 \in Cuts(input)
    /\ output = replace \o <<"a">> \o replace

\* the second Editor of the pipeline is at work on what appender("\n", 1)
\* returned, and it is replacer("\n", 2)
RoundTrip ==
    /\ piped # <<>>
    /\ piped.factory = Factory(<<"\n">>, 1, EditTypeAppend, Lf)
    /\ factory = Factory(<<"\n">>, 2, EditTypeReplace, Lf)

\* C33: for every Lf text x, replacer("\n", 2).edit(appender("\n", 1).edit(x))
\* is x: the second call is given x with every "\n" doubled, does not panic,
\* and returns x.
C33_AppendThenRemove ==
    RoundTrip =>
        /\ input = Doubled(piped.input, 1, Len(piped.input))
        /\ pc # "panicked"
        /\ pc = "returned" => output = piped.input

\* a text that starts with two newlines has come back
C33_Witness ==
    /\ RoundTrip
    /\ pc = "returned"
    /\ piped.input = <<"\n", "\n", "a">>
    /\ Len(input) = 5
    /\ output = piped.input

\* C34: during legacy LinurgyBuilder::process, after each add_line followed
\* by try_output the editor's buffer holds exactly current_count copies of
\* "\n" and nothing else (it is empty when the count is 0); so new_text is
\* applied to pending empty lines only, and the iteration of a line with
\* text hands on the pending empty lines followed by that line, unchanged.
C34_LegacyBufferPending ==
    /\ []((op = "run" /\ pc = "process" /\ pos > 0) =>
              editor.buffer = Rep(<<"\n">>, editor.current_count))
    /\ [][(op = "run" /\ pc = "process" /\ pos < Len(input)
             /\ lines_item(read_line(input, pos)) # <<>>) =>
              /\ pc' = pc
              /\ buffer' = buffer \o editor.buffer
                                  \o lines_item(read_line(input, pos)) \o <<"\n">>
              /\ editor'.buffer = <<>>
              /\ editor'.current_count = 0]_vars

\* the Editor of a builder with the settings of ed on which nothing has run
Fresh(ed) ==
    LegacyEditor(ed.newline_count_trigger, ed.new_text, ed.edit_type, 0, <<>>)

\* C35: after legacy LinurgyBuilder::run returns, the editor's buffer is
\* empty and current_count is 0, so every run of a builder, a second one
\* included, leaves in the output buffer what a run of a fresh builder with
\* the same settings leaves on the same input.
C35_LegacyRunLeavesNoState ==
    (op = "run" /\ pc = "returned") =>
        /\ editor.buffer = <<>>
        /\ editor.current_count = 0
        /\ output = process(input, 0, Fresh(editor), <<>>)

====
